---- MODULE Spec2Model ----
(***************************************************************************)
(* The voice-note capture pipeline of kavach_chatbot: class VoiceRecorder  *)
(* (src/README.md, lines 147-398) together with the platform objects it    *)
(* drives (MediaStream tracks, AudioContext graph, MediaRecorder) and the  *)
(* calls the surrounding component makes on it.                            *)
(*                                                                         *)
(* One VoiceRecorder instance is modelled.  JavaScript runs every handler  *)
(* to completion between two awaits, so every action below is one such     *)
(* run: the synchronous part of a call, the continuation of an await, or   *)
(* one platform event handler.                                             *)
(*                                                                         *)
(* Platform objects are numbered by the start() call that created them:    *)
(* call k can create stream k, audio context k (with its source and        *)
(* processor node) and media recorder k.  0 stands for null.               *)
(*                                                                         *)
(* The caller is arbitrary: start() and stop() may be issued in any state, *)
(* start() also during Recording and stop() also while start() is pending. *)
(* What the platform answers (capabilities, exceptions, events) is chosen  *)
(* anew at every step.                                                     *)
(***************************************************************************)
EXTENDS Naturals, Integers, Sequences, FiniteSets, TLC

\* ------------------------------------------------------------------ bounds
MaxStarts == 2      \* start() calls in one run
MaxStops  == 2      \* stop() calls in one run
MaxCalls  == 3      \* start() and stop() calls together in one run
MaxPending == 1     \* start() calls awaiting the platform at one time
MaxEvents == 2      \* frame callbacks plus non-empty encoder chunks in one run

MaxFrames == 2      \* frame callbacks in one evaluation of the encoder
MaxFrameLen == 1    \* samples in one frame of such an evaluation
Unit == 2           \* a sample value n stands for the number n / Unit
MaxChunks == 3      \* chunks the lossy encoder emits in one such evaluation

\* ------------------------------------------------------- program constants
SAMPLE_RATE == 44100
NUM_CHANNELS == 1
BUFFER_SIZE == 4096

Ids     == 1 .. MaxStarts
StopIds == 1 .. MaxStops

VARIABLES
    vr,        \* the VoiceRecorder's private fields
    tracks,    \* per stream: "none", "live" or "stopped"
    ctx,       \* per audio context: its state and processing graph
    mr,        \* per media recorder: its state and handlers
    cbs,       \* which caller-supplied callback throws (fixed at construction)
    calls,     \* invocations of the caller-supplied callbacks
    starts,    \* per start() call: position and what it did
    stops,     \* per stop() call: position and what it did
    nStarts, nStops, nEvents,
    phase,     \* the session state of spec section 4.5, as the calls imply it
    overlap,   \* a start() was issued while the session was not Idle
    ui,        \* the ChatInterface component and the recorders it constructed
    fn         \* one evaluation of the encoder's and the acquirer's functions

vars == << vr, tracks, ctx, mr, cbs, calls, starts, stops,
           nStarts, nStops, nEvents, phase, overlap, ui, fn >>

\* ------------------------------------------------------- the platform's inputs
\* How lossless construction goes for one start(): the step that is
\* unsupported or throws, or "ok".
LosslessOutcomes ==
    { "ok", "noAudioContextClass", "ctorThrows", "noScriptProcessor",
      "createSourceThrows", "createProcessorThrows",
      "connectSourceThrows", "connectDestThrows" }

\* How startMediaRecorderFallback goes: "unavailable" is MediaRecorder being
\* undefined or its constructor throwing, "startThrows" is recorder.start(100)
\* throwing.
LossyOutcomes == { "ok", "unavailable", "startThrows" }

\* navigator.mediaDevices: missing, present without getUserMedia, or usable.
MediaDevicesKinds == { "undefined", "noGetUserMedia", "ok" }

\* The name of the DOMException getUserMedia rejects with.
ErrorNames ==
    { "NotFoundError", "NotAllowedError", "PermissionDeniedError",
      "NotReadableError", "OtherError" }

CallbackModes == { "none", "onStart", "onStop", "onError" }

\* recorder.mimeType as the platform reports it: empty, or the container
\* the encoder negotiated.
MimeTypes == { "", "audio/mp4" }

\* ----------------------------------------------------------------- records
NoRecorderFields ==
    [ stream |-> 0, context |-> 0, processor |-> 0, source |-> 0,
      chunks |-> << >>, useMediaRecorder |-> FALSE, mediaRecorder |-> 0,
      mediaRecorderChunks |-> << >> ]

NoContext ==
    [ state |-> "none", source |-> FALSE, processor |-> FALSE,
      onaudioprocess |-> FALSE, srcConnected |-> FALSE, dstConnected |-> FALSE ]

NoMediaRecorder ==
    [ state |-> "none", stream |-> 0, ondataavailable |-> FALSE,
      onstop |-> 0, onerror |-> 0, stopQueued |-> FALSE,
      faulted |-> FALSE ]

NoStart ==
    [ pc |-> "none", stream |-> 0, phaseAtCall |-> "none", gumCalls |-> 0,
      md |-> "none", acquired |-> "pending", lossless |-> "untried", lossyTried |-> 0,
      lossy |-> "unknown", onStart |-> 0, onError |-> 0, error |-> "none",
      reported |-> "none",
      held |-> FALSE, live |-> FALSE, pipeline |-> "none",
      engine |-> FALSE, encoder |-> FALSE, frames |-> 0 ]

NoStop ==
    [ pc |-> "none", by |-> "none", phaseAtCall |-> "none", session |-> 0,
      stream |-> 0, path |-> "none", artifact |-> << >>, type |-> "none",
      mutated |-> FALSE, held |-> FALSE, live |-> FALSE,
      frames |-> 0, chunks |-> 0, size |-> 0, ops |-> << >>,
      raised |-> "none", mimeType |-> "none",
      header |-> << >> ]

\* The part of the state that the recorder's code reads and writes.
World == [ vr |-> vr, tracks |-> tracks, ctx |-> ctx, mr |-> mr,
           calls |-> calls, starts |-> starts, stops |-> stops ]

Install(w) ==
    /\ vr' = w.vr
    /\ tracks' = w.tracks
    /\ ctx' = w.ctx
    /\ mr' = w.mr
    /\ calls' = w.calls
    /\ starts' = w.starts
    /\ stops' = w.stops

\* isRecording derived from the pipeline's handles instead of the stream.
isRecordingByPipeline(w) == w.vr.context # 0 \/ w.vr.mediaRecorder # 0

\* get isRecording
isRecording(w) == w.vr.stream # 0

\* The component before its first render: no recorder, no timer, no handler
\* suspended at an await.
NoChatInterface ==
    [ isRecording |-> FALSE, isLoading |-> FALSE, voiceRecorderRef |-> 0,
      recordingIntervalRef |-> 0, timers |-> { },
      recorders |-> [ i \in Ids |-> NoRecorderFields ],
      startPc |-> [ i \in Ids |-> "none" ],
      stopPc |-> [ j \in StopIds |-> "none" ],
      sent |-> << >> ]

\* No function is being evaluated: no frame delivered, no artifact built,
\* no acquisition answered.
NoEvaluation ==
    [ pc |-> "none", frames |-> << >>, chunks |-> << >>,
      blob |-> [ type |-> "none", bytes |-> << >> ],
      emitted |-> << >>, mediaRecorderChunks |-> << >>,
      supported |-> { }, options |-> "none",
      md |-> "none", name |-> "none", msg |-> FALSE,
      error |-> [ kind |-> "none", message |-> "none", raw |-> FALSE ] ]

\* new VoiceRecorder(callbacks), on a platform that has handed out nothing.
InitRecorder ==
    /\ vr = NoRecorderFields
    /\ tracks = [ s \in Ids |-> "none" ]
    /\ ctx = [ c \in Ids |-> NoContext ]
    /\ mr = [ r \in Ids |-> NoMediaRecorder ]
    /\ cbs \in CallbackModes
    /\ calls = [ onStart |-> 0, onStop |-> << >>, onError |-> << >>,
                 frames |-> << >>, chunks |-> << >> ]
    /\ starts = [ k \in Ids |-> NoStart ]
    /\ stops = [ j \in StopIds |-> NoStop ]
    /\ nStarts = 0
    /\ nStops = 0
    /\ nEvents = 0
    /\ phase = "Idle"
    /\ overlap = FALSE

Init ==
    /\ InitRecorder
    /\ ui = NoChatInterface
    /\ fn = NoEvaluation


\* ------------------------------------------------------- the binary encoder
\* A sample of a Float32Array is << "num", n >>, the number n / Unit, or
\* << "NaN", 0 >>.  An Int16Array is a sequence of integers in
\* -32768 .. 32767; a byte buffer is a sequence of integers in 0 .. 255, the
\* byte at offset o being element o + 1.
NaN == << "NaN", 0 >>

\* The conversion an Int16Array applies to the number num / den it is
\* assigned: the fraction is dropped (towards zero) and the integer taken
\* modulo 2^16 into the signed range.
ToInt16(num, den) ==
    LET t == IF num < 0 THEN 0 - ((0 - num) \div den) ELSE num \div den
    IN  ((t + 32768) % 65536) - 32768

\* Lines 157-164, scaling both signs by 0x8000.
float32ToInt16Symmetric(float32) ==
    [ i \in 1 .. Len(float32) |->
        IF float32[i] = NaN THEN 0
        ELSE LET x == float32[i][2]
                 m == IF x < Unit THEN x ELSE Unit
                 c == IF m > 0 - Unit THEN m ELSE 0 - Unit
             IN  ToInt16(c * 32768, Unit) ]

\* Lines 157-164.  Math.min and Math.max return NaN for NaN, NaN < 0 is
\* false, and an Int16Array stores NaN as 0.
float32ToInt16(float32) ==
    [ i \in 1 .. Len(float32) |->
        IF float32[i] = NaN THEN 0
        ELSE LET x == float32[i][2]
                 m == IF x < Unit THEN x ELSE Unit
                 s == IF m > 0 - Unit THEN m ELSE 0 - Unit
             IN  IF s < 0 THEN ToInt16(s * 32768, Unit)
                 ELSE ToInt16(s * 32767, Unit) ]

\* view.setUint8(offset, value)
setUint8(view, offset, value) ==
    [ view EXCEPT ![offset + 1] = value % 256 ]

\* view.setUint16(offset, value) with its third argument left out: the
\* DataView default, big-endian.
setUint16BigEndian(view, offset, value) ==
    LET v == value % 65536
    IN  [ view EXCEPT ![offset + 1] = v \div 256, ![offset + 2] = v % 256 ]

\* view.setUint16(offset, value, true)
setUint16(view, offset, value) ==
    LET v == value % 65536
    IN  [ view EXCEPT ![offset + 1] = v % 256, ![offset + 2] = v \div 256 ]

\* view.setUint32(offset, value, true): the four low bytes of value, lowest
\* first (the value is taken modulo 2^32).
setUint32(view, offset, value) ==
    [ view EXCEPT ![offset + 1] = value % 256,
                  ![offset + 2] = (value \div 256) % 256,
                  ![offset + 3] = (value \div 65536) % 256,
                  ![offset + 4] = (value \div 16777216) % 256 ]

\* writeStr, lines 172-176: str is given by its character codes.
writeStr(view, offset, str) ==
    [ i \in 1 .. Len(view) |->
        IF i > offset /\ i <= offset + Len(str)
        THEN setUint8(view, i - 1, str[i - offset])[i]
        ELSE view[i] ]

RIFF == << 82, 73, 70, 70 >>
WAVE == << 87, 65, 86, 69 >>
fmt  == << 102, 109, 116, 32 >>
data == << 100, 97, 116, 97 >>

\* Lines 166-191, with the size of the whole file in the RIFF size field.
createWavHeaderFileSize(dataLength) ==
    LET byteRate   == SAMPLE_RATE * NUM_CHANNELS * 2
        blockAlign == NUM_CHANNELS * 2
        v0  == [ i \in 1 .. 44 |-> 0 ]
        v1  == writeStr(v0, 0, RIFF)
        v2  == setUint32(v1, 4, 44 + dataLength)
        v3  == writeStr(v2, 8, WAVE)
        v4  == writeStr(v3, 12, fmt)
        v5  == setUint32(v4, 16, 16)
        v6  == setUint16(v5, 20, 1)
        v7  == setUint16(v6, 22, NUM_CHANNELS)
        v8  == setUint32(v7, 24, SAMPLE_RATE)
        v9  == setUint32(v8, 28, byteRate)
        v10 == setUint16(v9, 32, blockAlign)
        v11 == setUint16(v10, 34, 16)
        v12 == writeStr(v11, 36, data)
    IN  setUint32(v12, 40, dataLength)

\* Lines 166-191.
createWavHeader(dataLength) ==
    LET byteRate   == SAMPLE_RATE * NUM_CHANNELS * 2
        blockAlign == NUM_CHANNELS * 2
        v0  == [ i \in 1 .. 44 |-> 0 ]
        v1  == writeStr(v0, 0, RIFF)
        v2  == setUint32(v1, 4, 36 + dataLength)
        v3  == writeStr(v2, 8, WAVE)
        v4  == writeStr(v3, 12, fmt)
        v5  == setUint32(v4, 16, 16)
        v6  == setUint16(v5, 20, 1)
        v7  == setUint16(v6, 22, NUM_CHANNELS)
        v8  == setUint32(v7, 24, SAMPLE_RATE)
        v9  == setUint32(v8, 28, byteRate)
        v10 == setUint16(v9, 32, blockAlign)
        v11 == setUint16(v10, 34, 16)
        v12 == writeStr(v11, 36, data)
    IN  setUint32(v12, 40, dataLength)

\* this.chunks.reduce((acc, c) => acc + c.length, 0), line 379
RECURSIVE TotalLength(_)
TotalLength(chunks) ==
    IF chunks = << >> THEN 0
    ELSE Len(Head(chunks)) + TotalLength(Tail(chunks))

\* Lines 380-385 without `offset += chunk.length`: every chunk is copied to
\* the same place.
RECURSIVE CopyChunksNoAdvance(_, _, _)
CopyChunksNoAdvance(pcm, chunks, offset) ==
    IF chunks = << >> THEN pcm
    ELSE CopyChunksNoAdvance(
             [ i \in 1 .. Len(pcm) |->
                 IF i > offset /\ i <= offset + Len(Head(chunks))
                 THEN Head(chunks)[i - offset] ELSE pcm[i] ],
             Tail(chunks), offset)

\* Lines 380-385: every chunk is copied into pcm at the running offset.
RECURSIVE CopyChunks(_, _, _)
CopyChunks(pcm, chunks, offset) ==
    IF chunks = << >> THEN pcm
    ELSE CopyChunks(
             [ i \in 1 .. Len(pcm) |->
                 IF i > offset /\ i <= offset + Len(Head(chunks))
                 THEN Head(chunks)[i - offset] ELSE pcm[i] ],
             Tail(chunks), offset + Len(Head(chunks)))

\* pcm.buffer: two bytes per sample, low byte first, two's complement.
Int16Buffer(pcm) ==
    [ b \in 1 .. 2 * Len(pcm) |->
        LET u == (pcm[(b + 1) \div 2] + 65536) % 65536
        IN  IF b % 2 = 1 THEN u % 256 ELSE u \div 256 ]

\* Lines 379-389 of stopWav: the artifact built from this.chunks.
WavBlob(chunks) ==
    LET totalLength == TotalLength(chunks)
        pcm == CopyChunks([ i \in 1 .. totalLength |-> 0 ], chunks, 0)
        dataLength == Len(pcm) * 2
        header == createWavHeader(dataLength)
    IN  [ type |-> "audio/wav", bytes |-> header \o Int16Buffer(pcm) ]

\* ------------------------------------------------------ callbacks and logs
\* this.callbacks.onStart?.() made by start() call k.
CallOnStart(w, k) ==
    [ w EXCEPT !.calls.onStart = @ + 1, !.starts[k].onStart = @ + 1 ]

\* this.callbacks.onError?.(err) made by start() call k.
CallOnError(w, k, err) ==
    [ w EXCEPT !.calls.onError = Append(@, err), !.starts[k].onError = @ + 1,
               !.starts[k].reported = err ]

\* this.callbacks.onStop?.(blob)
CallOnStop(w, blob) ==
    [ w EXCEPT !.calls.onStop = Append(@, blob) ]

\* start() call k settles: the promise resolves or rejects with err.  What the
\* recorder holds at that moment is noted with it.
SettleStart(w, k, out, err) ==
    [ w EXCEPT !.starts[k] =
        [ @ EXCEPT !.pc = out, !.error = err,
                   !.held = isRecording(w),
                   !.live = (w.starts[k].stream # 0 /\ w.tracks[k] = "live"),
                   !.pipeline =
                       IF w.vr.useMediaRecorder /\ w.vr.mediaRecorder # 0
                       THEN "lossy" ELSE "wav",
                   !.engine = (w.vr.context # 0 \/ w.vr.source # 0
                               \/ w.vr.processor # 0),
                   !.encoder = (w.vr.mediaRecorder # 0),
                   !.frames = Len(w.calls.frames) ] ]

\* --------------------------------------------------------- getAudioStream
\* The error getAudioStream throws for a getUserMedia rejection named `name`
\* whose message does (msg) or does not contain 'device not found'.
ClassifyError(name, msg) ==
    IF name = "NotFoundError" \/ msg THEN "DeviceNotFound"
    ELSE IF name \in { "NotAllowedError", "PermissionDeniedError" }
         THEN "PermissionDenied"
    ELSE IF name = "NotReadableError" THEN "DeviceBusy"
    ELSE "Unknown"

\* The two messages of lines 234-237 the other way round.
PreflightErrorSwapped(md) ==
    IF md = "undefined" THEN "InsecureContext"
    ELSE IF md = "noGetUserMedia" THEN "UnsupportedPlatform"
    ELSE "none"

\* getAudioStream on a platform whose navigator.mediaDevices is `md`: the
\* error thrown before getUserMedia is called, or "none".
PreflightError(md) ==
    IF md = "undefined" THEN "UnsupportedPlatform"
    ELSE IF md = "noGetUserMedia" THEN "InsecureContext"
    ELSE "none"

\* The message of the Error getAudioStream constructs for each kind it
\* classifies, lines 234-237, 249-257.
ErrorMessage(kind) ==
    IF kind = "UnsupportedPlatform"
    THEN "Microphone not supported in this browser."
    ELSE IF kind = "InsecureContext"
    THEN "Microphone access requires a secure connection (HTTPS)."
    ELSE IF kind = "DeviceNotFound"
    THEN "No microphone found. Connect a mic or allow microphone access in your browser or device settings. On mobile, use HTTPS and allow the site to use the microphone."
    ELSE IF kind = "PermissionDenied"
    THEN "Microphone access was denied. Please allow microphone permission and try again."
    ELSE IF kind = "DeviceBusy"
    THEN "Microphone is in use by another app. Close other apps using the mic and try again."
    ELSE "none"

\* The message of the DOMException the platform rejected with: one that
\* contains 'device not found' (msg) or one that does not.
PlatformMessage(name, msg) ==
    IF msg THEN "Requested device not found" ELSE "platform error"

\* What getAudioStream throws, lines 232-261: a new Error with the kind's
\* message, or (`throw e`) the platform's own exception.
getAudioStreamError(md, name, msg) ==
    LET pre  == PreflightError(md)
        kind == IF pre # "none" THEN pre ELSE ClassifyError(name, msg)
    IN  IF kind = "Unknown"
        THEN [ kind |-> kind, message |-> PlatformMessage(name, msg),
               raw |-> TRUE ]
        ELSE [ kind |-> kind, message |-> ErrorMessage(kind), raw |-> FALSE ]

\* ------------------------------------------------ startMediaRecorderFallback
\* The preference list of lines 195-200.
types ==
    << "audio/webm;codecs=opus", "audio/webm", "audio/ogg;codecs=opus",
       "audio/mp4" >>

\* The loop of lines 201-203 from element i on; isTypeSupported is the set
\* of types for which MediaRecorder.isTypeSupported answers true.
RECURSIVE FirstSupportedFrom(_, _)
FirstSupportedFrom(i, isTypeSupported) ==
    IF i > Len(types) THEN ""
    ELSE IF types[i] \in isTypeSupported THEN types[i]
    ELSE FirstSupportedFrom(i + 1, isTypeSupported)

\* Lines 194-205 with the list walked from its end.
getMediaRecorderMimeTypeLast(isTypeSupported) ==
    IF \A i \in 1 .. Len(types) : types[i] \notin isTypeSupported THEN ""
    ELSE types[CHOOSE i \in 1 .. Len(types) :
                   /\ types[i] \in isTypeSupported
                   /\ \A h \in i + 1 .. Len(types) :
                          types[h] \notin isTypeSupported]

\* Lines 194-205.
getMediaRecorderMimeType(isTypeSupported) ==
    FirstSupportedFrom(1, isTypeSupported)

\* Lines 327-328: the options the MediaRecorder is constructed with.
RecorderOptions(isTypeSupported) ==
    LET mimeType == getMediaRecorderMimeType(isTypeSupported)
    IN  IF mimeType # ""
        THEN [ mimeType |-> mimeType, audioBitsPerSecond |-> 128000 ]
        ELSE [ audioBitsPerSecond |-> 128000 ]

\* Called by start() call k with stream s; the recorder it constructs is
\* recorder k.  Returns the new state and whether it threw.
startMediaRecorderFallback(w, k, s, lossy) ==
    LET w1 == [ w EXCEPT !.vr.useMediaRecorder = TRUE,
                         !.vr.mediaRecorderChunks = << >>,
                         !.starts[k].lossyTried = @ + 1 ]
        w2 == [ w1 EXCEPT !.mr[k] = [ NoMediaRecorder EXCEPT
                                        !.state = "inactive", !.stream = s,
                                        !.ondataavailable = TRUE ],
                          !.vr.mediaRecorder = k ]
        w3 == [ w2 EXCEPT !.mr[k].state = "recording" ]
    IN  IF lossy = "unavailable" THEN [ w |-> w1, threw |-> TRUE ]
        ELSE IF lossy = "startThrows" THEN [ w |-> w2, threw |-> TRUE ]
        ELSE [ w |-> w3, threw |-> FALSE ]

\* -------------------------------------------------------------- start()
\* Lines 319-320: report the error and rethrow it.
Rethrow(w, k, err) ==
    LET w1 == CallOnError(w, k, err)
    IN  IF cbs = "onError" THEN SettleStart(w1, k, "rejected", "onErrorThrew")
        ELSE SettleStart(w1, k, "rejected", err)

\* The catch block reporting the error of the fallback it tried, in place
\* of the one it was entered with.
CatchBlockReportsFallback(w, k, err, lossy) ==
    IF w.vr.stream # 0 /\ ~w.vr.useMediaRecorder
    THEN LET f == startMediaRecorderFallback(w, k, w.vr.stream, lossy)
             s == CallOnStart(f.w, k)
         IN  IF f.threw THEN Rethrow(f.w, k, "MediaRecorderError")
             ELSE IF cbs = "onStart" THEN Rethrow(s, k, err)
             ELSE SettleStart(s, k, "resolved", "none")
    ELSE Rethrow(w, k, err)

\* The catch block of start(), lines 308-321, entered with error err.
CatchBlock(w, k, err, lossy) ==
    IF w.vr.stream # 0 /\ ~w.vr.useMediaRecorder
    THEN LET f == startMediaRecorderFallback(w, k, w.vr.stream, lossy)
             s == CallOnStart(f.w, k)
         IN  IF f.threw THEN Rethrow(f.w, k, err)
             ELSE IF cbs = "onStart" THEN Rethrow(s, k, err)
             ELSE SettleStart(s, k, "resolved", "none")
    ELSE Rethrow(w, k, err)

\* Lines 273-275 and 289-291: the fallback taken inside the try block.
FallbackInTry(w, k, s, lossy) ==
    LET f == startMediaRecorderFallback(w, k, s, lossy)
        c == CallOnStart(f.w, k)
    IN  IF f.threw THEN CatchBlock(f.w, k, "MediaRecorderError", lossy)
        ELSE IF cbs = "onStart" THEN CatchBlock(c, k, "onStartThrew", lossy)
        ELSE SettleStart(c, k, "resolved", "none")

\* Lines 285-307: the processing graph is built on this.context, as read
\* after the await, with the stream this call acquired.
BuildGraph(w, k, ll, lossy) ==
    LET c  == w.vr.context
        w0 == [ w EXCEPT !.ctx[c].state = "closed", !.vr.context = 0 ]
        w1 == [ w EXCEPT !.ctx[c].source = TRUE, !.vr.source = c ]
        w2 == [ w1 EXCEPT !.ctx[c].processor = TRUE, !.vr.processor = c,
                          !.vr.chunks = << >>,
                          !.ctx[c].onaudioprocess = TRUE ]
        w3 == [ w2 EXCEPT !.ctx[c].srcConnected = TRUE ]
        w4 == [ w3 EXCEPT !.ctx[c].dstConnected = TRUE ]
        w5 == CallOnStart(w4, k)
    IN  IF c = 0 THEN CatchBlock(w, k, "TypeError", lossy)
        ELSE IF ll = "noScriptProcessor"
             THEN FallbackInTry(w0, k, w.starts[k].stream, lossy)
        ELSE IF ll = "createSourceThrows" THEN CatchBlock(w, k, ll, lossy)
        ELSE IF ll = "createProcessorThrows" THEN CatchBlock(w1, k, ll, lossy)
        ELSE IF ll = "connectSourceThrows" THEN CatchBlock(w2, k, ll, lossy)
        ELSE IF ll = "connectDestThrows" THEN CatchBlock(w3, k, ll, lossy)
        ELSE IF cbs = "onStart" THEN CatchBlock(w5, k, "onStartThrew", lossy)
        ELSE SettleStart(w5, k, "resolved", "none")

\* Lines 266-283: getAudioStream resolved with stream k.
AfterAcquire(w, k, ll, suspended, lossy) ==
    LET w0 == [ w EXCEPT !.tracks[k] = "live", !.vr.stream = k,
                         !.starts[k].stream = k,
                         !.starts[k].gumCalls = @ + 1,
                         !.starts[k].md = "ok",
                         !.starts[k].acquired = "ok",
                         !.starts[k].lossless = ll ]
        w1 == [ w0 EXCEPT !.ctx[k].state =
                              IF suspended THEN "suspended" ELSE "running",
                          !.vr.context = k ]
    IN  IF ll = "noAudioContextClass" THEN FallbackInTry(w0, k, k, lossy)
        ELSE IF ll = "ctorThrows" THEN CatchBlock(w0, k, ll, lossy)
        ELSE IF suspended THEN [ w1 EXCEPT !.starts[k].pc = "resuming" ]
        ELSE BuildGraph(w1, k, ll, lossy)

\* Notes, for a call that tried the lossy fallback or that failed after
\* acquiring its stream, how the platform's lossy encoder would have answered.
NotePlatform(w, k, lossy) ==
    IF \/ w.starts[k].lossyTried > 0
       \/ (w.starts[k].pc = "rejected" /\ w.starts[k].acquired = "ok")
    THEN [ w EXCEPT !.starts[k].lossy = lossy ]
    ELSE w

\* The session state after start() call k moved to position pc.
PhaseAfterStart(pc) ==
    IF pc = "resolved" THEN "Recording"
    ELSE IF pc = "rejected" THEN "Idle"
    ELSE phase

\* The start() calls suspended at an await.
Pending == { k \in Ids : starts[k].pc \in { "acquiring", "resuming" } }

\* start() is called: it runs up to `await this.getAudioStream()`.
Start ==
    /\ nStarts < MaxStarts
    /\ nStarts + nStops < MaxCalls
    /\ Cardinality(Pending) < MaxPending
    /\ nStarts' = nStarts + 1
    /\ starts' = [ starts EXCEPT ![nStarts + 1] =
                     [ NoStart EXCEPT !.pc = "acquiring",
                                      !.phaseAtCall = phase ] ]
    /\ overlap' = (overlap \/ phase # "Idle")
    /\ phase' = "Starting"
    /\ UNCHANGED << ui, fn, vr, tracks, ctx, mr, cbs, calls, stops, nStops, nEvents >>

\* getUserMedia resolves for call k and start() runs on to its next await or
\* to its end.
AcquireResolve(k, ll, suspended, lossy) ==
    /\ starts[k].pc = "acquiring"
    /\ LET w == AfterAcquire(World, k, ll, suspended, lossy)
       IN  /\ Install(NotePlatform(w, k, lossy))
           /\ phase' = PhaseAfterStart(w.starts[k].pc)
    /\ UNCHANGED << ui, fn, cbs, nStarts, nStops, nEvents, overlap >>

\* getAudioStream throws for call k: before calling getUserMedia when the
\* platform has none, else with the classified getUserMedia rejection.
AcquireReject(k, md, name, msg, lossy) ==
    /\ starts[k].pc = "acquiring"
    /\ LET pre == PreflightError(md)
           err == IF pre # "none" THEN pre ELSE ClassifyError(name, msg)
           w0  == [ World EXCEPT
                      !.starts[k].md = md,
                      !.starts[k].acquired = err,
                      !.starts[k].gumCalls =
                          IF pre # "none" THEN @ ELSE @ + 1 ]
           w   == CatchBlock(w0, k, err, lossy)
       IN  /\ Install(NotePlatform(w, k, lossy))
           /\ phase' = PhaseAfterStart(w.starts[k].pc)
    /\ UNCHANGED << ui, fn, cbs, nStarts, nStops, nEvents, overlap >>

\* this.context.resume() resolves for call k.
ResumeResolve(k, lossy) ==
    /\ starts[k].pc = "resuming"
    /\ ctx[k].state = "suspended"
    /\ LET w0 == [ World EXCEPT !.ctx[k].state = "running" ]
           w  == BuildGraph(w0, k, starts[k].lossless, lossy)
       IN  /\ Install(NotePlatform(w, k, lossy))
           /\ phase' = PhaseAfterStart(w.starts[k].pc)
    /\ UNCHANGED << ui, fn, cbs, nStarts, nStops, nEvents, overlap >>

\* this.context.resume() rejects for call k.
ResumeReject(k, lossy) ==
    /\ starts[k].pc = "resuming"
    /\ LET w0 == [ World EXCEPT !.starts[k].lossless = "resumeRejects" ]
           w  == CatchBlock(w0, k, "resumeRejects", lossy)
       IN  /\ Install(NotePlatform(w, k, lossy))
           /\ phase' = PhaseAfterStart(w.starts[k].pc)
    /\ UNCHANGED << ui, fn, cbs, nStarts, nStops, nEvents, overlap >>


\* --------------------------------------------------------------- stop()
\* stop() call j settles at position pc ("resolved", "rejected", or "threw"
\* for an exception raised synchronously by the call).
SettleStop(w, j, pc) ==
    [ w EXCEPT !.stops[j] =
        [ @ EXCEPT !.pc = pc,
                   !.held = isRecording(w),
                   !.live = (w.stops[j].stream # 0
                             /\ w.tracks[w.stops[j].stream] = "live") ] ]

\* Lines 352 and 373 left out: the tracks are not stopped.
StopTracksSkipped(w, j) == w

\* stream?.getTracks().forEach((t) => t.stop()) on this.stream, in code
\* that stop() call j runs or installed; the call notes what it did.
StopTracks(w, j) ==
    IF w.vr.stream = 0 THEN w
    ELSE [ w EXCEPT !.tracks[w.vr.stream] = "stopped",
                    !.stops[j].ops = Append(@, << "stopTracks", w.vr.stream >>) ]

\* Lines 345-364 with the body of the onstop handler run by stop() itself,
\* right after recorder.stop(), instead of by the recorder's stop event.
stopMediaRecorderNoWait(w, j) ==
    LET r  == w.vr.mediaRecorder
        w0 == [ w EXCEPT !.stops[j].path = "lossy" ]
        blob == [ type |-> "audio/webm", data |-> w.vr.mediaRecorderChunks ]
        w1 == [ StopTracks(w0, j) EXCEPT
                    !.mr[r].state = "inactive",
                    !.mr[r].stopQueued = TRUE,
                    !.vr.stream = 0, !.vr.mediaRecorder = 0,
                    !.vr.mediaRecorderChunks = << >>,
                    !.stops[j].mutated = TRUE,
                    !.stops[j].artifact = blob.data,
                    !.stops[j].type = blob.type ]
    IN  IF r = 0 \/ w.mr[r].state = "inactive"
        THEN SettleStop(w0, j, "threw")
        ELSE SettleStop(CallOnStop(w1, blob), j, "resolved")

\* Lines 345-364.  The promise's executor installs both handlers and asks
\* the recorder to stop; the recorder turns inactive at once and its stop
\* event is queued.
stopMediaRecorder(w, j) ==
    LET r  == w.vr.mediaRecorder
        w0 == [ w EXCEPT !.stops[j].path = "lossy" ]
        w1 == [ w0 EXCEPT !.mr[r].onstop = j, !.mr[r].onerror = j,
                          !.mr[r].state = "inactive",
                          !.mr[r].stopQueued = TRUE,
                          !.stops[j].pc = "pending",
                          !.stops[j].mutated = TRUE ]
    IN  IF r = 0 \/ w.mr[r].state = "inactive"
        THEN SettleStop(w0, j, "threw")
        ELSE w1

\* Line 355 with the generic container type whatever the recorder reports.
BlobTypeGeneric(mimeType) == "audio/webm"

\* Line 355: recorder.mimeType || 'audio/webm'
BlobType(mimeType) == IF mimeType # "" THEN mimeType ELSE "audio/webm"

\* recorder.onstop, lines 351-360, installed by stop() call j, on a recorder
\* whose mimeType reads as given.
OnStopHandler(w, j, mimeType) ==
    LET blob == [ type |-> BlobType(mimeType),
                  data |-> w.vr.mediaRecorderChunks ]
        w1 == StopTracks(w, j)
        w2 == [ w1 EXCEPT !.vr.stream = 0, !.vr.mediaRecorder = 0,
                          !.vr.mediaRecorderChunks = << >> ]
        w3 == CallOnStop(w2, blob)
        w4 == [ w3 EXCEPT !.stops[j].artifact = blob.data,
                          !.stops[j].type = blob.type,
                          !.stops[j].mimeType = mimeType ]
    IN  IF cbs = "onStop" THEN w3
        ELSE IF w.stops[j].pc = "pending" THEN SettleStop(w4, j, "resolved")
        ELSE w3

\* pcm.length, lines 379-385, for chunks that each hold one block of
\* BUFFER_SIZE samples (line 295).
RECURSIVE PcmLength(_)
PcmLength(chunks) ==
    IF chunks = << >> THEN 0
    ELSE BUFFER_SIZE + PcmLength(Tail(chunks))

\* Lines 366-393 with line 373 moved before line 370: the tracks are stopped
\* first, the nodes disconnected and the engine closed afterwards.
stopWavTracksFirst(w, j, disc) ==
    LET w0 == [ w EXCEPT !.stops[j].path = "wav" ]
        p  == w.vr.processor
        s  == w.vr.source
        c  == w.vr.context
        t0 == [ StopTracks(w0, j) EXCEPT !.stops[j].mutated = TRUE ]
        w1 == [ t0 EXCEPT !.ctx[p].dstConnected = FALSE,
                          !.stops[j].ops =
                              Append(@, << "processor.disconnect", p,
                                           w.ctx[p].state >>) ]
        w2 == [ w1 EXCEPT !.ctx[s].srcConnected = FALSE,
                          !.stops[j].ops =
                              Append(@, << "source.disconnect", s,
                                           w.ctx[s].state >>) ]
        w3 == [ w2 EXCEPT !.ctx[c].state = "closed",
                          !.stops[j].ops = Append(@, << "context.close", c >>) ]
        w4 == w3
        dataLength == PcmLength(w.vr.chunks) * 2
        header == createWavHeader(dataLength)
        blob == [ type |-> "audio/wav", data |-> w.vr.chunks,
                  size |-> Len(header) + dataLength ]
        w5 == [ w4 EXCEPT !.vr.stream = 0, !.vr.processor = 0,
                          !.vr.source = 0, !.vr.context = 0,
                          !.vr.chunks = << >>,
                          !.stops[j].artifact = blob.data,
                          !.stops[j].type = blob.type,
                          !.stops[j].size = blob.size,
                          !.stops[j].header = header ]
        w6 == CallOnStop(w5, blob)
        r0 == [ t0 EXCEPT !.stops[j].raised = disc ]
        r1 == [ w1 EXCEPT !.stops[j].raised = disc ]
    IN  IF p = 0 \/ s = 0 \/ c = 0 THEN SettleStop(w0, j, "threw")
        ELSE IF disc = "processor" THEN SettleStop(r0, j, "threw")
        ELSE IF disc = "source" THEN SettleStop(r1, j, "threw")
        ELSE IF cbs = "onStop" THEN SettleStop(w6, j, "threw")
        ELSE SettleStop(w6, j, "resolved")

\* Lines 366-393.  disc names the disconnect() that raises, if any.
stopWav(w, j, disc) ==
    LET w0 == [ w EXCEPT !.stops[j].path = "wav" ]
        p  == w.vr.processor
        s  == w.vr.source
        c  == w.vr.context
        w1 == [ w0 EXCEPT !.ctx[p].dstConnected = FALSE,
                          !.stops[j].mutated = TRUE,
                          !.stops[j].ops =
                              Append(@, << "processor.disconnect", p,
                                           w.ctx[p].state >>) ]
        w2 == [ w1 EXCEPT !.ctx[s].srcConnected = FALSE,
                          !.stops[j].ops =
                              Append(@, << "source.disconnect", s,
                                           w.ctx[s].state >>) ]
        w3 == [ w2 EXCEPT !.ctx[c].state = "closed",
                          !.stops[j].ops = Append(@, << "context.close", c >>) ]
        w4 == StopTracks(w3, j)
        dataLength == PcmLength(w.vr.chunks) * 2
        header == createWavHeader(dataLength)
        blob == [ type |-> "audio/wav", data |-> w.vr.chunks,
                  size |-> Len(header) + dataLength ]
        w5 == [ w4 EXCEPT !.vr.stream = 0, !.vr.processor = 0,
                          !.vr.source = 0, !.vr.context = 0,
                          !.vr.chunks = << >>,
                          !.stops[j].artifact = blob.data,
                          !.stops[j].type = blob.type,
                          !.stops[j].size = blob.size,
                          !.stops[j].header = header ]
        w6 == CallOnStop(w5, blob)
        r0 == [ w0 EXCEPT !.stops[j].raised = disc ]
        r1 == [ w1 EXCEPT !.stops[j].raised = disc ]
    IN  IF p = 0 \/ s = 0 \/ c = 0 THEN SettleStop(w0, j, "threw")
        ELSE IF disc = "processor" THEN SettleStop(r0, j, "threw")
        ELSE IF disc = "source" THEN SettleStop(r1, j, "threw")
        ELSE IF cbs = "onStop" THEN SettleStop(w6, j, "threw")
        ELSE SettleStop(w6, j, "resolved")

\* Lines 338-343.
stop(w, j, disc) ==
    IF w.vr.useMediaRecorder /\ w.vr.mediaRecorder # 0
    THEN stopMediaRecorder(w, j)
    ELSE stopWav(w, j, disc)

\* The ways stop() is reached: called directly, or from cancelVoiceNote,
\* which calls it only if isRecording and discards the outcome.
Callers == { "stop", "cancelVoiceNote" }

\* The session state after stop() call j, issued in phase ph, reached pc.
PhaseAfterStop(ph, pc) ==
    IF ph = "Recording"
    THEN IF pc = "pending" THEN "Stopping" ELSE "Idle"
    ELSE ph

\* stop() is called by `by`.
Stop(by, disc) ==
    /\ nStops < MaxStops
    /\ nStarts + nStops < MaxCalls
    /\ by # "stop" => isRecording(World)
    /\ nStops' = nStops + 1
    /\ LET j  == nStops + 1
           w0 == [ World EXCEPT !.stops[j] =
                     [ NoStop EXCEPT !.by = by, !.phaseAtCall = phase,
                                     !.session = nStarts,
                                     !.stream = vr.stream,
                                     !.frames = Len(calls.frames),
                                     !.chunks = Len(calls.chunks) ] ]
           w  == stop(w0, j, disc)
       IN  /\ Install(w)
           /\ phase' = PhaseAfterStop(phase, w.stops[j].pc)
    /\ UNCHANGED << ui, fn, cbs, nStarts, nEvents, overlap >>

\* ------------------------------------------------------- platform events
\* The session state after a platform event moved stop() call j.
PhaseAfterEvent(w, j) ==
    IF j # 0 /\ phase = "Stopping" /\ w.stops[j].pc # "pending"
    THEN "Idle" ELSE phase

\* Recorder r fires its stop event.
MediaRecorderStop(r, mimeType) ==
    /\ mr[r].stopQueued
    /\ LET j  == mr[r].onstop
           w0 == [ World EXCEPT !.mr[r].stopQueued = FALSE ]
           w  == IF j = 0 THEN w0 ELSE OnStopHandler(w0, j, mimeType)
       IN  /\ Install(w)
           /\ phase' = PhaseAfterEvent(w, j)
    /\ UNCHANGED << ui, fn, cbs, nStarts, nStops, nEvents, overlap >>

\* recorder.ondataavailable without the size test of line 332.
OnDataAvailableAll(w, r, size, n) ==
    [ w EXCEPT !.vr.mediaRecorderChunks = Append(@, << "chunk", r, n >>) ]

\* recorder.ondataavailable, lines 331-333, for a chunk of `size` bytes.
OnDataAvailable(w, r, size, n) ==
    IF size > 0
    THEN [ w EXCEPT !.vr.mediaRecorderChunks = Append(@, << "chunk", r, n >>) ]
    ELSE w

\* Recorder r emits a chunk: every 100 ms while recording, and once more
\* before its stop event.
MediaRecorderData(r, size) ==
    /\ nEvents < MaxEvents
    /\ mr[r].ondataavailable
    /\ mr[r].state = "recording" \/ mr[r].stopQueued
    /\ nEvents' = IF size > 0 THEN nEvents + 1 ELSE nEvents
    /\ LET w == OnDataAvailable(World, r, size, nEvents + 1)
       IN  Install(IF size > 0
                   THEN [ w EXCEPT !.calls.chunks =
                                       Append(@, << "chunk", r, nEvents + 1 >>) ]
                   ELSE w)
    /\ UNCHANGED << ui, fn, cbs, nStarts, nStops, phase, overlap >>

\* recorder.onerror, line 361, installed by stop() call j.
OnErrorHandler(w, j) ==
    IF w.stops[j].pc = "pending" THEN SettleStop(w, j, "rejected") ELSE w

\* Recorder r reports an error; the platform may or may not follow it with
\* a stop event.
MediaRecorderError(r, follow) ==
    /\ mr[r].state = "recording" \/ mr[r].stopQueued
    /\ LET j  == mr[r].onerror
           w0 == [ World EXCEPT !.mr[r].state = "inactive",
                                !.mr[r].stopQueued = follow,
                                !.mr[r].faulted = TRUE ]
           w  == IF j = 0 THEN w0 ELSE OnErrorHandler(w0, j)
       IN  /\ Install(w)
           /\ phase' = PhaseAfterEvent(w, j)
    /\ UNCHANGED << ui, fn, cbs, nStarts, nStops, nEvents, overlap >>

\* processor.onaudioprocess keeping only the newest block.
OnAudioProcessOverwrite(w, c, n) ==
    [ w EXCEPT !.vr.chunks = << << "frame", c, n >> >>,
               !.calls.frames = Append(@, << "frame", c, n >>) ]

\* processor.onaudioprocess, lines 300-304.
OnAudioProcess(w, c, n) ==
    [ w EXCEPT !.vr.chunks = Append(@, << "frame", c, n >>),
               !.calls.frames = Append(@, << "frame", c, n >>) ]

\* The processor of context c delivers one block of BUFFER_SIZE samples.
AudioProcess(c) ==
    /\ nEvents < MaxEvents
    /\ ctx[c].state = "running"
    /\ ctx[c].onaudioprocess
    /\ ctx[c].srcConnected \/ ctx[c].dstConnected
    /\ nEvents' = nEvents + 1
    /\ Install(OnAudioProcess(World, c, nEvents + 1))
    /\ UNCHANGED << ui, fn, cbs, nStarts, nStops, phase, overlap >>

\* A block that the processor of context c had dispatched when stop() closed
\* the context reaches the handler afterwards: the handler runs as a task of
\* its own, after the caller's task that ran stop() and before any task of
\* a later start().
AudioProcessLate(c) ==
    /\ nEvents < MaxEvents
    /\ ctx[c].state = "closed"
    /\ ctx[c].onaudioprocess
    /\ nStarts = c
    /\ \E j \in StopIds :
           /\ stops[j].path = "wav"
           /\ Len(stops[j].ops) >= 3
           /\ stops[j].ops[3] = << "context.close", c >>
    /\ nEvents' = nEvents + 1
    /\ Install(OnAudioProcess(World, c, nEvents + 1))
    /\ UNCHANGED << ui, fn, cbs, nStarts, nStops, phase, overlap >>

\* ------------------------------------------------------------ specification
Next ==
    \/ Start
    \/ \E k \in Ids, ll \in LosslessOutcomes, suspended \in BOOLEAN,
          lossy \in LossyOutcomes : AcquireResolve(k, ll, suspended, lossy)
    \/ \E k \in Ids, md \in MediaDevicesKinds, name \in ErrorNames,
          msg \in BOOLEAN, lossy \in LossyOutcomes :
          AcquireReject(k, md, name, msg, lossy)
    \/ \E k \in Ids, lossy \in LossyOutcomes : ResumeResolve(k, lossy)
    \/ \E k \in Ids, lossy \in LossyOutcomes : ResumeReject(k, lossy)
    \/ \E by \in Callers, disc \in { "none", "processor", "source" } :
          Stop(by, disc)
    \/ \E r \in Ids, mimeType \in MimeTypes : MediaRecorderStop(r, mimeType)
    \/ \E r \in Ids, size \in { 0, 1 } : MediaRecorderData(r, size)
    \/ \E r \in Ids, follow \in BOOLEAN : MediaRecorderError(r, follow)
    \/ \E c \in Ids : AudioProcess(c)
    \/ \E c \in Ids : AudioProcessLate(c)

Spec == Init /\ [][Next]_vars


\* ------------------------------------------------------------ ChatInterface
\* The component constructs a new VoiceRecorder for every recording it
\* starts: recorder i is the one made by the i-th startVoiceRecording, and
\* its start() is start() call i.  Its fields are ui.recorders[i]; the
\* platform objects and the call logs are the ones above.  The contents of
\* the artifacts are not followed here, so no frame or chunk is delivered.

\* The state as recorder i's code sees it.
UiWorld(i) == [ World EXCEPT !.vr = ui.recorders[i] ]

\* The state after code of recorder i ran, in a component left as u.
UiInstall(w, i, u) ==
    /\ tracks' = w.tracks
    /\ ctx' = w.ctx
    /\ mr' = w.mr
    /\ calls' = w.calls
    /\ starts' = w.starts
    /\ stops' = w.stops
    /\ ui' = [ u EXCEPT !.recorders[i] = w.vr ]

\* voiceRecorderRef.current?.isRecording, lines 718 and 742.
RefIsRecording ==
    IF ui.voiceRecorderRef = 0 THEN FALSE
    ELSE isRecording(UiWorld(ui.voiceRecorderRef))

\* Lines 722-727, 732-737 and 746-751: the timer is cleared if one is
\* referenced, and the recording flag reset.
ResetRecordingState(u) ==
    [ u EXCEPT !.timers = @ \ { u.recordingIntervalRef },
               !.recordingIntervalRef = 0,
               !.isRecording = FALSE ]

\* The record button is clicked (it is rendered while isRecording is false
\* and disabled while isLoading): startVoiceRecording runs up to
\* `await recorder.start()`, and start() up to its first await.
startVoiceRecording ==
    /\ ~ui.isRecording
    /\ ~ui.isLoading
    /\ nStarts < MaxStarts
    /\ nStarts' = nStarts + 1
    /\ starts' = [ starts EXCEPT ![nStarts + 1] =
                     [ NoStart EXCEPT !.pc = "acquiring",
                                      !.phaseAtCall = "Idle" ] ]
    /\ ui' = [ ui EXCEPT !.voiceRecorderRef = nStarts + 1,
                         !.startPc[nStarts + 1] = "awaiting" ]
    /\ UNCHANGED << vr, tracks, ctx, mr, cbs, calls, stops, nStops, nEvents,
                    phase, overlap, fn >>

\* getUserMedia resolves for recorder i.
UiAcquireResolve(i, ll, suspended, lossy) ==
    /\ starts[i].pc = "acquiring"
    /\ UiInstall(NotePlatform(AfterAcquire(UiWorld(i), i, ll, suspended, lossy),
                              i, lossy), i, ui)
    /\ UNCHANGED << vr, cbs, nStarts, nStops, nEvents, phase, overlap, fn >>

\* getAudioStream throws for recorder i.
UiAcquireReject(i, md, name, msg, lossy) ==
    /\ starts[i].pc = "acquiring"
    /\ LET pre == PreflightError(md)
           err == IF pre # "none" THEN pre ELSE ClassifyError(name, msg)
           w0  == [ UiWorld(i) EXCEPT
                      !.starts[i].md = md,
                      !.starts[i].acquired = err,
                      !.starts[i].gumCalls =
                          IF pre # "none" THEN @ ELSE @ + 1 ]
       IN  UiInstall(NotePlatform(CatchBlock(w0, i, err, lossy), i, lossy),
                     i, ui)
    /\ UNCHANGED << vr, cbs, nStarts, nStops, nEvents, phase, overlap, fn >>

\* this.context.resume() resolves for recorder i.
UiResumeResolve(i, lossy) ==
    /\ starts[i].pc = "resuming"
    /\ ctx[i].state = "suspended"
    /\ LET w0 == [ UiWorld(i) EXCEPT !.ctx[i].state = "running" ]
       IN  UiInstall(NotePlatform(BuildGraph(w0, i, starts[i].lossless, lossy),
                                  i, lossy), i, ui)
    /\ UNCHANGED << vr, cbs, nStarts, nStops, nEvents, phase, overlap, fn >>

\* this.context.resume() rejects for recorder i.
UiResumeReject(i, lossy) ==
    /\ starts[i].pc = "resuming"
    /\ LET w0 == [ UiWorld(i) EXCEPT !.starts[i].lossless = "resumeRejects" ]
       IN  UiInstall(NotePlatform(CatchBlock(w0, i, "resumeRejects", lossy),
                                  i, lossy), i, ui)
    /\ UNCHANGED << vr, cbs, nStarts, nStops, nEvents, phase, overlap, fn >>

\* startVoiceRecording continues after `await recorder.start()`: lines
\* 691-695 when it resolved, the catch block (a message) when it rejected.
startVoiceRecordingResume(i) ==
    /\ ui.startPc[i] = "awaiting"
    /\ starts[i].pc \in { "resolved", "rejected" }
    /\ ui' = IF starts[i].pc = "resolved"
             THEN [ ui EXCEPT !.startPc[i] = "done",
                              !.isRecording = TRUE,
                              !.recordingIntervalRef = i,
                              !.timers = @ \cup { i } ]
             ELSE [ ui EXCEPT !.startPc[i] = "done" ]
    /\ UNCHANGED << vr, tracks, ctx, mr, cbs, calls, starts, stops,
                    nStarts, nStops, nEvents, phase, overlap, fn >>

\* stop() call j on the recorder the component references, made by `by`.
UiStopCall(j, by, disc) ==
    LET i  == ui.voiceRecorderRef
        w0 == [ UiWorld(i) EXCEPT !.stops[j] =
                  [ NoStop EXCEPT !.by = by, !.phaseAtCall = "Recording",
                                  !.session = i,
                                  !.stream = ui.recorders[i].stream ] ]
    IN  stop(w0, j, disc)

\* The "Stop and send" button is clicked (it is rendered while isRecording
\* is true): stopVoiceRecording runs up to `await recorder.stop()`, or
\* through its catch block when stop() throws.
stopVoiceRecording(disc) ==
    /\ ui.isRecording
    /\ RefIsRecording
    /\ nStops < MaxStops
    /\ nStops' = nStops + 1
    /\ LET j == nStops + 1
           i == ui.voiceRecorderRef
           w == UiStopCall(j, "stop", disc)
       IN  IF w.stops[j].pc = "threw"
           THEN UiInstall(w, i, [ ResetRecordingState(ui) EXCEPT
                                    !.voiceRecorderRef = 0,
                                    !.stopPc[j] = "done" ])
           ELSE UiInstall(w, i, [ ui EXCEPT !.stopPc[j] = "awaiting" ])
    /\ UNCHANGED << vr, cbs, nStarts, nEvents, phase, overlap, fn >>

\* The "Stop and send" button is clicked while the component references no
\* recorder that holds a stream: line 718 returns.
stopVoiceRecordingNoop ==
    /\ ui.isRecording
    /\ ~RefIsRecording
    /\ UNCHANGED vars

\* sendVoiceNoteWithBlob, lines 754-770: the artifact of stop() call j is
\* handed to the upload.
sendVoiceNoteWithBlob(u, j) ==
    [ u EXCEPT !.sent = Append(@, j), !.isLoading = TRUE ]

\* stopVoiceRecording continues after `await recorder.stop()`.
stopVoiceRecordingResume(j) ==
    /\ ui.stopPc[j] = "awaiting"
    /\ stops[j].pc \in { "resolved", "rejected" }
    /\ LET u == [ ResetRecordingState(ui) EXCEPT !.voiceRecorderRef = 0,
                                                 !.stopPc[j] = "done" ]
       IN  ui' = IF stops[j].pc = "resolved"
                 THEN sendVoiceNoteWithBlob(u, j) ELSE u
    /\ UNCHANGED << vr, tracks, ctx, mr, cbs, calls, starts, stops,
                    nStarts, nStops, nEvents, phase, overlap, fn >>

\* The upload and the answer's submission end: the finally block, 844-848.
sendVoiceNoteSettles ==
    /\ ui.isLoading
    /\ ui' = [ ui EXCEPT !.isLoading = FALSE ]
    /\ UNCHANGED << vr, tracks, ctx, mr, cbs, calls, starts, stops,
                    nStarts, nStops, nEvents, phase, overlap, fn >>

\* The "Cancel" button is clicked while the referenced recorder holds a
\* stream: stop() is called and its promise discarded.  When stop() throws,
\* the exception leaves the handler at line 743.
cancelVoiceNote(disc) ==
    /\ ui.isRecording
    /\ RefIsRecording
    /\ nStops < MaxStops
    /\ nStops' = nStops + 1
    /\ LET j == nStops + 1
           i == ui.voiceRecorderRef
           w == UiStopCall(j, "cancelVoiceNote", disc)
       IN  IF w.stops[j].pc = "threw"
           THEN UiInstall(w, i, [ ui EXCEPT !.stopPc[j] = "escaped" ])
           ELSE UiInstall(w, i, [ ResetRecordingState(ui) EXCEPT
                                    !.voiceRecorderRef = 0,
                                    !.stopPc[j] = "done" ])
    /\ UNCHANGED << vr, cbs, nStarts, nEvents, phase, overlap, fn >>

\* The "Cancel" button is clicked while no referenced recorder holds a
\* stream: only lines 746-751 run.
cancelVoiceNoteIdle ==
    /\ ui.isRecording
    /\ ~RefIsRecording
    /\ ui' = ResetRecordingState(ui)
    /\ UNCHANGED << vr, tracks, ctx, mr, cbs, calls, starts, stops,
                    nStarts, nStops, nEvents, phase, overlap, fn >>

\* The media recorder of recorder r fires its stop event.
UiMediaRecorderStop(r, mimeType) ==
    /\ mr[r].stopQueued
    /\ LET j  == mr[r].onstop
           w0 == [ UiWorld(r) EXCEPT !.mr[r].stopQueued = FALSE ]
       IN  UiInstall(IF j = 0 THEN w0 ELSE OnStopHandler(w0, j, mimeType),
                     r, ui)
    /\ UNCHANGED << vr, cbs, nStarts, nStops, nEvents, phase, overlap, fn >>

\* The media recorder of recorder r reports an error.
UiMediaRecorderError(r, follow) ==
    /\ mr[r].state = "recording" \/ mr[r].stopQueued
    /\ LET j  == mr[r].onerror
           w0 == [ UiWorld(r) EXCEPT !.mr[r].state = "inactive",
                                     !.mr[r].stopQueued = follow,
                                     !.mr[r].faulted = TRUE ]
       IN  UiInstall(IF j = 0 THEN w0 ELSE OnErrorHandler(w0, j), r, ui)
    /\ UNCHANGED << vr, cbs, nStarts, nStops, nEvents, phase, overlap, fn >>

\* The component is mounted with callbacks that never throw (line 685).
UiInit ==
    /\ Init
    /\ cbs = "none"

UiNext ==
    \/ startVoiceRecording
    \/ \E i \in Ids, ll \in LosslessOutcomes, suspended \in BOOLEAN,
          lossy \in LossyOutcomes : UiAcquireResolve(i, ll, suspended, lossy)
    \/ \E i \in Ids, md \in MediaDevicesKinds, name \in ErrorNames,
          msg \in BOOLEAN, lossy \in LossyOutcomes :
          UiAcquireReject(i, md, name, msg, lossy)
    \/ \E i \in Ids, lossy \in LossyOutcomes : UiResumeResolve(i, lossy)
    \/ \E i \in Ids, lossy \in LossyOutcomes : UiResumeReject(i, lossy)
    \/ \E i \in Ids : startVoiceRecordingResume(i)
    \/ \E disc \in { "none", "processor", "source" } : stopVoiceRecording(disc)
    \/ stopVoiceRecordingNoop
    \/ \E j \in StopIds : stopVoiceRecordingResume(j)
    \/ sendVoiceNoteSettles
    \/ \E disc \in { "none", "processor", "source" } : cancelVoiceNote(disc)
    \/ cancelVoiceNoteIdle
    \/ \E r \in Ids, mimeType \in MimeTypes : UiMediaRecorderStop(r, mimeType)
    \/ \E r \in Ids, follow \in BOOLEAN : UiMediaRecorderError(r, follow)

UiSpec == UiInit /\ [][UiNext]_vars


\* ------------------------------------------- the functions, one evaluation
\* The encoder and the acquirer's classification, each evaluated on inputs
\* of its own: frames handed to onaudioprocess and then stopWav's artifact,
\* or one answer of the platform to getAudioStream.

\* The values a sample takes: beyond, at and within the range [-1, 1], and
\* not a number.
Samples ==
    { << "num", n >> : n \in { 0 - Unit - 1, 0 - Unit, -1, 0, 1, Unit, Unit + 1 } }
        \cup { NaN }

\* The Float32Arrays of at most MaxFrameLen samples.
Frames ==
    UNION { [ 1 .. n -> Samples ] : n \in 0 .. MaxFrameLen }

\* processor.onaudioprocess, lines 300-304, is handed `input`.
FnOnAudioProcess(input) ==
    /\ fn.pc = "recording"
    /\ Len(fn.frames) < MaxFrames
    /\ fn' = [ fn EXCEPT !.frames = Append(@, input),
                         !.chunks = Append(@, float32ToInt16(input)) ]
    /\ UNCHANGED << vr, tracks, ctx, mr, cbs, calls, starts, stops,
                    nStarts, nStops, nEvents, phase, overlap, ui >>

\* stopWav builds the artifact, lines 379-389.
FnStopWav ==
    /\ fn.pc = "recording"
    /\ fn' = [ fn EXCEPT !.pc = "stopped", !.blob = WavBlob(fn.chunks),
                         !.chunks = << >> ]
    /\ UNCHANGED << vr, tracks, ctx, mr, cbs, calls, starts, stops,
                    nStarts, nStops, nEvents, phase, overlap, ui >>

\* getAudioStream fails, on a platform whose navigator.mediaDevices is md
\* and whose getUserMedia rejects with a DOMException (name, msg).
FnGetAudioStream(md, name, msg) ==
    /\ fn.pc = "recording"
    /\ fn.frames = << >>
    /\ fn' = [ fn EXCEPT !.pc = "thrown", !.md = md, !.name = name,
                         !.msg = msg,
                         !.error = getAudioStreamError(md, name, msg) ]
    /\ UNCHANGED << vr, tracks, ctx, mr, cbs, calls, starts, stops,
                    nStarts, nStops, nEvents, phase, overlap, ui >>

\* recorder.ondataavailable, lines 331-333, is handed the n-th chunk the
\* encoder emits, of `size` bytes.
FnOnDataAvailable(size) ==
    /\ \/ fn.pc = "recording" /\ fn.frames = << >>
       \/ fn.pc = "encoding"
    /\ Len(fn.emitted) < MaxChunks
    /\ LET n  == Len(fn.emitted) + 1
           w0 == [ World EXCEPT
                      !.vr.mediaRecorderChunks = fn.mediaRecorderChunks ]
           w  == OnDataAvailable(w0, 1, size, n)
       IN  fn' = [ fn EXCEPT !.pc = "encoding",
                             !.emitted = Append(@, << size, << "chunk", 1, n >> >>),
                             !.mediaRecorderChunks = w.vr.mediaRecorderChunks ]
    /\ UNCHANGED << vr, tracks, ctx, mr, cbs, calls, starts, stops,
                    nStarts, nStops, nEvents, phase, overlap, ui >>

\* startMediaRecorderFallback, lines 327-329, on a platform that supports
\* the types in isTypeSupported: the recorder is constructed.
FnStartMediaRecorderFallback(isTypeSupported) ==
    /\ fn.pc = "recording"
    /\ fn.frames = << >>
    /\ fn' = [ fn EXCEPT !.pc = "constructed",
                         !.supported = isTypeSupported,
                         !.options = RecorderOptions(isTypeSupported) ]
    /\ UNCHANGED << vr, tracks, ctx, mr, cbs, calls, starts, stops,
                    nStarts, nStops, nEvents, phase, overlap, ui >>

FnInit ==
    /\ InitRecorder
    /\ cbs = "none"
    /\ ui = NoChatInterface
    /\ fn = [ NoEvaluation EXCEPT !.pc = "recording" ]

FnNext ==
    \/ \E input \in Frames : FnOnAudioProcess(input)
    \/ \E size \in { 0, 1 } : FnOnDataAvailable(size)
    \/ \E isTypeSupported \in SUBSET { types[i] : i \in 1 .. Len(types) } :
          FnStartMediaRecorderFallback(isTypeSupported)
    \/ FnStopWav
    \/ \E md \in MediaDevicesKinds, name \in ErrorNames, msg \in BOOLEAN :
          FnGetAudioStream(md, name, msg)

FnSpec == FnInit /\ [][FnNext]_vars


\* ------------------------------------- one session on a platform that answers
\* One recorder used for one session: start() is called once, and the
\* operations and events are those of the recorder above.  The platform
\* settles what it was asked: getUserMedia and context.resume() settle, and
\* a recorder that was asked to stop fires its stop event or an error.  The
\* caller, the frame callbacks and the chunks of a recorder that records are
\* under no obligation.

\* start() on a recorder that has not been started.
FirstStart ==
    /\ nStarts = 0
    /\ Start

\* The promise of navigator.mediaDevices.getUserMedia settles, line 246.
GetUserMediaSettles ==
    \/ \E k \in Ids, ll \in LosslessOutcomes, suspended \in BOOLEAN,
          lossy \in LossyOutcomes : AcquireResolve(k, ll, suspended, lossy)
    \/ \E k \in Ids, md \in MediaDevicesKinds, name \in ErrorNames,
          msg \in BOOLEAN, lossy \in LossyOutcomes :
          AcquireReject(k, md, name, msg, lossy)

\* The promise of context.resume() settles, line 282.
ResumeSettles ==
    \/ \E k \in Ids, lossy \in LossyOutcomes : ResumeResolve(k, lossy)
    \/ \E k \in Ids, lossy \in LossyOutcomes : ResumeReject(k, lossy)

\* A recorder that recorder.stop() of line 362 asked to stop fires its stop
\* event or an error.
EncoderSettles ==
    \E r \in Ids :
        /\ mr[r].stopQueued
        /\ \/ \E mimeType \in MimeTypes : MediaRecorderStop(r, mimeType)
           \/ \E follow \in BOOLEAN : MediaRecorderError(r, follow)

LiveNext ==
    \/ FirstStart
    \/ GetUserMediaSettles
    \/ ResumeSettles
    \/ \E by \in Callers, disc \in { "none", "processor", "source" } :
          Stop(by, disc)
    \/ \E r \in Ids, mimeType \in MimeTypes : MediaRecorderStop(r, mimeType)
    \/ \E r \in Ids, size \in { 0, 1 } : MediaRecorderData(r, size)
    \/ \E r \in Ids, follow \in BOOLEAN : MediaRecorderError(r, follow)
    \/ \E c \in Ids : AudioProcess(c)
    \/ \E c \in Ids : AudioProcessLate(c)

LiveSpec ==
    /\ Init
    /\ [][LiveNext]_vars
    /\ WF_vars(GetUserMediaSettles)
    /\ WF_vars(ResumeSettles)
    /\ WF_vars(EncoderSettles)

\* ===================================================================
\* The claims.  Each is stated over the notes the actions take when a call
\* settles (starts[k], stops[j]) and over the platform's state.
\* ===================================================================
Settled == { "resolved", "rejected", "threw" }

AcquisitionErrors ==
    { "UnsupportedPlatform", "InsecureContext", "PermissionDenied",
      "DeviceNotFound", "DeviceBusy", "Unknown" }

\* Every start() so far was issued while the session was Idle, and no
\* caller-supplied callback throws: the caller keeps its side of the contract.
WellBehavedCaller == ~overlap /\ cbs = "none"

\* The lossless graph of context c is live: engine running, source feeding
\* the processor, frame callback installed.
GraphLive(c) ==
    /\ ctx[c].state = "running"
    /\ ctx[c].onaudioprocess
    /\ ctx[c].srcConnected

\* C1: at most one session per instance - every stream the instance has
\* acquired is the one it currently references or has had its tracks stopped
\* (checked on the runs in which every start() is issued from Idle).
C1_SingleSession ==
    WellBehavedCaller => \A s \in Ids : tracks[s] = "live" => vr.stream = s

\* C2: when the promise of a stop() issued in Recording has settled, by
\* resolving or by rejecting, the stream's tracks are stopped and the stream
\* reference is cleared (isRecording is false).
C2_StopAlwaysReleases ==
    WellBehavedCaller =>
        \A j \in StopIds :
            (/\ stops[j].phaseAtCall = "Recording"
             /\ stops[j].pc \in { "resolved", "rejected" })
                => (~stops[j].held /\ ~stops[j].live)

\* C3: when start() rejects after the stream was acquired and both the
\* lossless pipeline and the lossy fallback failed, the tracks are stopped,
\* no stream, engine, node or encoder handle is held, isRecording is false.
C3_FailedStartReleases ==
    WellBehavedCaller =>
        \A k \in Ids :
            (/\ starts[k].pc = "rejected"
             /\ starts[k].acquired = "ok"
             /\ starts[k].lossless # "ok"
             /\ starts[k].lossy # "ok")
                => (/\ ~starts[k].held
                    /\ ~starts[k].live
                    /\ ~starts[k].engine
                    /\ ~starts[k].encoder)

\* The platform's lossy encoder was available to every start() so far.
LossyAlwaysAvailable ==
    \A k \in Ids : starts[k].lossy \in { "unknown", "ok" }

\* C4: when the stream was acquired, a step of lossless construction is
\* unsupported or fails and the lossy encoder is available, start() resolves
\* on the lossy pipeline, on the same stream, after exactly one acquisition.
C4_FallbackReachesRecording ==
    (WellBehavedCaller /\ LossyAlwaysAvailable) =>
        \A k \in Ids :
            (/\ starts[k].pc \in Settled
             /\ starts[k].acquired = "ok"
             /\ starts[k].lossless # "ok"
             /\ starts[k].lossy = "ok")
                => (/\ starts[k].pc = "resolved"
                    /\ starts[k].pipeline = "lossy"
                    /\ mr[k].stream = starts[k].stream
                    /\ starts[k].gumCalls = 1)

\* C5: a stop() issued in a state other than Recording fails: it neither
\* resolves with an artifact nor starts a teardown.
C5_StopOutsideRecordingFails ==
    WellBehavedCaller =>
        \A j \in StopIds :
            (stops[j].pc # "none" /\ stops[j].phaseAtCall # "Recording")
                => stops[j].pc \in { "rejected", "threw" }

\* C5, as the claim words it: the failure is a rejection of the promise that
\* stop() returns.
C5_StopOutsideRecordingRejects ==
    WellBehavedCaller =>
        \A j \in StopIds :
            (stops[j].pc # "none" /\ stops[j].phaseAtCall # "Recording")
                => stops[j].pc = "rejected"

\* C6: one session yields at most one artifact - with a single start(), at
\* most one stop() resolves and onStop is invoked at most once.
C6_OneArtifactPerSession ==
    (WellBehavedCaller /\ nStarts <= 1) =>
        /\ Len(calls.onStop) <= 1
        /\ Cardinality({ j \in StopIds : stops[j].pc = "resolved" }) <= 1

\* C7: when acquisition fails, start() rejects with the classified error,
\* isRecording is false, no pipeline is constructed and getUserMedia is not
\* called again.
C7_AcquisitionFailureRejects ==
    WellBehavedCaller =>
        \A k \in Ids :
            (starts[k].acquired \in AcquisitionErrors
             /\ starts[k].pc \in Settled)
                => (/\ starts[k].pc = "rejected"
                    /\ starts[k].error = starts[k].acquired
                    /\ ~starts[k].held
                    /\ starts[k].lossyTried = 0
                    /\ ctx[k].state = "none"
                    /\ starts[k].gumCalls <= 1)

\* C8: the lossless graph and the lossy encoder are never live together.
C8_OnePipeline ==
    WellBehavedCaller =>
        ~ \E c \in Ids, r \in Ids : GraphLive(c) /\ mr[r].state = "recording"

\* C9: a throwing onStart does not alter start()'s control flow - onStart is
\* invoked at most once per start(), and when it throws with the lossless
\* pipeline running, neither the lossy fallback nor onError is triggered.
C9_CallbackExceptionNotCaught ==
    ~overlap =>
        \A k \in Ids :
            /\ starts[k].onStart <= 1
            /\ (cbs = "onStart" /\ starts[k].lossless = "ok")
                   => (starts[k].lossyTried = 0 /\ starts[k].onError = 0)

\* C10: once the stop() issued by cancelVoiceNote has completed (here: even
\* in the best case, where it resolves) and no encoder event is outstanding,
\* the session's stream is stopped and neither its audio engine nor its
\* encoder is running.
C10_CancelNeverLeaks ==
    WellBehavedCaller =>
        \A j \in StopIds :
            (/\ stops[j].by = "cancelVoiceNote"
             /\ stops[j].pc = "resolved"
             /\ stops[j].session # 0
             /\ ~mr[stops[j].session].stopQueued)
                => (/\ tracks[stops[j].stream] # "live"
                    /\ ctx[stops[j].session].state # "running"
                    /\ mr[stops[j].session].state # "recording")

\* The recorders on which the component has called stop().
Stopped == { stops[j].session : j \in { n \in StopIds : stops[n].pc # "none" } }

\* C11: the component serializes its calls - start() is never invoked while
\* an earlier start() is still pending, and every recorder that holds a
\* stream and has not been asked to stop is the one voiceRecorderRef
\* references.
C11_CallerSerializes ==
    /\ Cardinality(Pending) <= 1
    /\ \A i \in Ids :
           (ui.recorders[i].stream # 0 /\ i \notin Stopped)
               => ui.voiceRecorderRef = i

\* C12: isRecording is true exactly when the controller references a device
\* stream, and the stream it references is one whose tracks are live; no
\* pipeline handle (engine, node, encoder) enters into it.  The getter is
\* an expression over the fields: evaluating it assigns nothing.
C12_IsRecordingIffStreamHeld ==
    isRecording(World) <=> \E s \in Ids : vr.stream = s /\ tracks[s] = "live"

\* A lossless session was recorded and stopped, and a lossy session is being
\* recorded: isRecording was true, then false, and is true again.
C12_Witness ==
    /\ starts[1].pc = "resolved" /\ starts[1].pipeline = "wav"
    /\ stops[1].pc = "resolved" /\ ~stops[1].held
    /\ starts[2].pc = "resolved" /\ starts[2].pipeline = "lossy"
    /\ isRecording(World)

\* Reading a header back: the little-endian fields at a byte offset.
getUint16(bytes, offset) == bytes[offset + 1] + 256 * bytes[offset + 2]

getUint32(bytes, offset) ==
    bytes[offset + 1] + 256 * bytes[offset + 2] + 65536 * bytes[offset + 3]
        + 16777216 * bytes[offset + 4]

\* The number of samples in the frames handed to onaudioprocess.
RECURSIVE SampleCount(_)
SampleCount(frames) ==
    IF Len(frames) = 0 THEN 0
    ELSE SampleCount(SubSeq(frames, 1, Len(frames) - 1))
             + Len(frames[Len(frames)])

\* C13: for frames of N samples in all (N >= 0, within the frames the
\* evaluation is given), the lossless artifact is 44 + 2N bytes long, its
\* bytes 4-7 hold 36 + 2N and its bytes 40-43 hold 2N, little-endian.
C13_WavLength ==
    fn.pc = "stopped" =>
        LET N == SampleCount(fn.frames)
        IN  /\ Len(fn.blob.bytes) = 44 + 2 * N
            /\ getUint32(fn.blob.bytes, 4) = 36 + 2 * N
            /\ getUint32(fn.blob.bytes, 40) = 2 * N

\* An artifact was built from two frames that hold samples.
C13_Witness ==
    /\ fn.pc = "stopped"
    /\ Len(fn.frames) = 2
    /\ SampleCount(fn.frames) = 2
    /\ Len(fn.blob.bytes) = 48

\* C14: the fields read back from any produced header are format tag 1,
\* one channel, sample rate 44100, 16 bits per sample, byte rate
\* sampleRate * channels * 2 and block align channels * 2, whatever the
\* length of the data.
C14_HeaderRoundTrip ==
    fn.pc = "stopped" =>
        /\ getUint16(fn.blob.bytes, 20) = 1
        /\ getUint16(fn.blob.bytes, 22) = 1
        /\ getUint32(fn.blob.bytes, 24) = 44100
        /\ getUint16(fn.blob.bytes, 34) = 16
        /\ getUint32(fn.blob.bytes, 28) = 44100 * 1 * 2
        /\ getUint16(fn.blob.bytes, 32) = 1 * 2

\* Headers were produced for an empty recording and (this state) for one of
\* the largest the evaluation is given.
C14_Witness ==
    /\ fn.pc = "stopped"
    /\ SampleCount(fn.frames) = MaxFrames * MaxFrameLen
    /\ getUint32(fn.blob.bytes, 24) = SAMPLE_RATE
    /\ getUint32(fn.blob.bytes, 40) = 2 * MaxFrames * MaxFrameLen

\* C15: the conversion clamps to [-1, 1], scales negatives by 32768 and the
\* others by 32767: -1, 1 and 0 give -32768, 32767 and 0, everything below
\* -1 gives -32768 and everything above 1 gives 32767, a value within the
\* range is scaled and its fraction dropped, and no result lies outside
\* -32768 .. 32767.
C15_SampleConversion ==
    \A f \in 1 .. Len(fn.chunks) :
        /\ Len(fn.chunks[f]) = Len(fn.frames[f])
        /\ \A i \in 1 .. Len(fn.frames[f]) :
               LET x == fn.frames[f][i]
                   y == fn.chunks[f][i]
               IN  /\ y \in -32768 .. 32767
                   /\ x = << "num", 0 - Unit >> => y = -32768
                   /\ x = << "num", Unit >> => y = 32767
                   /\ x = << "num", 0 >> => y = 0
                   /\ (x # NaN /\ x[2] < 0 - Unit) => y = -32768
                   /\ (x # NaN /\ x[2] > Unit) => y = 32767
                   /\ x = << "num", -1 >> => y = 0 - (32768 \div Unit)
                   /\ x = << "num", 1 >> => y = 32767 \div Unit

\* Frames holding +1.0 and a value below -1 were converted.
C15_Witness ==
    /\ Len(fn.chunks) = 2
    /\ fn.frames[1] = << << "num", Unit >> >>
    /\ fn.chunks[1] = << 32767 >>
    /\ fn.frames[2] = << << "num", 0 - Unit - 1 >> >>
    /\ fn.chunks[2] = << -32768 >>

C17_LossyStopNeverEmpty ==
    WellBehavedCaller =>
        \A j \in StopIds :
            (stops[j].path = "lossy" /\ stops[j].pc = "resolved")
                => stops[j].artifact # << >>

ClassifiedKinds ==
    { "UnsupportedPlatform", "InsecureContext", "DeviceNotFound",
      "PermissionDenied", "DeviceBusy" }

\* C18: the kind of an acquisition failure follows the platform error's
\* category - not-found is DeviceNotFound, not-allowed and permission-denied
\* are PermissionDenied, not-readable is DeviceBusy; an error of any other
\* category is Unknown and is the platform's own error, unchanged (or, by the
\* documented best-effort match on its message, DeviceNotFound); every
\* classified kind has a message of its own.
C18_ClassificationByCategory ==
    /\ \A a, b \in ClassifiedKinds :
           ErrorMessage(a) = ErrorMessage(b) => a = b
    /\ (fn.pc = "thrown" /\ fn.md = "ok") =>
           /\ fn.name = "NotFoundError" => fn.error.kind = "DeviceNotFound"
           /\ fn.name \in { "NotAllowedError", "PermissionDeniedError" }
                  => fn.error.kind = "PermissionDenied"
           /\ fn.name = "NotReadableError" => fn.error.kind = "DeviceBusy"
           /\ fn.name = "OtherError"
                  => fn.error.kind \in { "Unknown", "DeviceNotFound" }
           /\ fn.error.kind = "Unknown"
                  => (/\ fn.error.raw
                      /\ fn.error.message = PlatformMessage(fn.name, fn.msg))
           /\ fn.error.kind \in ClassifiedKinds
                  => fn.error.message = ErrorMessage(fn.error.kind)

\* Every start() so far found navigator.mediaDevices as call k did: the
\* platform's capture capability does not change while the page lives.
SamePlatform(k) ==
    \A h \in Ids : starts[h].md \in { "none", starts[k].md }

\* C19: getAudioStream fails with UnsupportedPlatform exactly when
\* navigator.mediaDevices is undefined, and with InsecureContext exactly when
\* it is there without getUserMedia; in both cases getUserMedia is not
\* called, the call acquires no stream, and (on such a platform) start()
\* rejects without trying a pipeline and with no stream held.
C19_PreflightFailures ==
    \A k \in Ids :
        starts[k].pc \in Settled =>
            /\ starts[k].md = "undefined"
                   <=> starts[k].acquired = "UnsupportedPlatform"
            /\ starts[k].md = "noGetUserMedia"
                   <=> starts[k].acquired = "InsecureContext"
            /\ starts[k].acquired \in { "UnsupportedPlatform", "InsecureContext" }
                   => (/\ starts[k].gumCalls = 0
                       /\ starts[k].stream = 0
                       /\ SamePlatform(k)
                              => (/\ starts[k].pc = "rejected"
                                  /\ starts[k].lossyTried = 0
                                  /\ ~starts[k].held))

\* Two start() calls in a row failed for want of getUserMedia.
C19_Witness ==
    /\ starts[1].pc = "rejected" /\ starts[1].acquired = "InsecureContext"
    /\ starts[2].pc = "rejected" /\ starts[2].acquired = "InsecureContext"
    /\ starts[2].gumCalls = 0
    /\ ~isRecording(World)

\* C20: once the lossy encoder of a session has reported a failure and no
\* encoder event is outstanding, the failure has been surfaced (onError was
\* called, or a stop() of that session failed), no stop() of that session
\* has resolved with an artifact, and the session's stream is released.
C20_EncoderFaultSurfaced ==
    WellBehavedCaller =>
        \A r \in Ids :
            (mr[r].faulted /\ ~mr[r].stopQueued) =>
                /\ \/ calls.onError # << >>
                   \/ \E j \in StopIds :
                          /\ stops[j].session = r
                          /\ stops[j].pc \in { "rejected", "threw" }
                /\ \A j \in StopIds :
                       stops[j].session = r => stops[j].pc # "resolved"
                /\ tracks[mr[r].stream] # "live"

\* The stop() calls whose code stopped the tracks of stream s.
Releases(s) ==
    { << j, n >> \in StopIds \X (1 .. 4) :
          /\ n <= Len(stops[j].ops)
          /\ stops[j].ops[n] = << "stopTracks", s >> }

\* C21: a stop() issued after an earlier stop() of the same session has
\* resolved (the session is released, the state Idle) does not throw, and
\* over the whole run the tracks of each stream are stopped at most once.
C21_TeardownIdempotent ==
    WellBehavedCaller =>
        /\ \A j \in StopIds :
               (/\ stops[j].phaseAtCall = "Idle"
                /\ stops[j].session # 0
                /\ \E h \in 1 .. j - 1 :
                       /\ stops[h].pc = "resolved"
                       /\ stops[h].session = stops[j].session)
                   => stops[j].pc # "threw"
        /\ \A s \in Ids : Cardinality(Releases(s)) <= 1

\* Handler j of the component ran on a session whose lossy teardown an
\* earlier "Stop and send" (handler h) had already requested, with no
\* encoder error in between.
RepeatedStop(h, j) ==
    /\ h < j
    /\ stops[j].pc # "none"
    /\ stops[h].by = "stop"
    /\ stops[h].path = "lossy"
    /\ stops[h].pc \in { "pending", "resolved" }
    /\ stops[h].session = stops[j].session
    /\ ~mr[stops[j].session].faulted

\* C22: a stop or cancel repeated while the teardown is in flight ends
\* without an exception leaving the handler and with the recording state and
\* the session's timer reset, and once the encoder has acknowledged, the
\* session's stream has been released exactly once.
C22_RepeatedStopIdempotent ==
    \A h, j \in StopIds :
        RepeatedStop(h, j) =>
            /\ ui.stopPc[j] = "done"
            /\ stops[j].session \notin ui.timers
            /\ ~mr[stops[j].session].stopQueued
                   => (/\ tracks[stops[h].stream] = "stopped"
                       /\ Cardinality(Releases(stops[h].stream)) = 1)

\* C23: with callbacks that return normally and a caller that starts from
\* Idle, onStart has been invoked once by every start() that resolved, with
\* a pipeline running, and by no other; onError once by every start() that
\* rejected and by no other; onStop once for every stop() that resolved,
\* with the artifact it resolved with, and for no other.
C23_CallbacksAtTransitions ==
    WellBehavedCaller =>
        /\ \A k \in Ids :
               /\ starts[k].onStart = IF starts[k].pc = "resolved" THEN 1 ELSE 0
               /\ starts[k].onError = IF starts[k].pc = "rejected" THEN 1 ELSE 0
               /\ starts[k].pc = "resolved"
                      => (starts[k].engine \/ starts[k].encoder)
        /\ Len(calls.onError)
               = Cardinality({ k \in Ids : starts[k].pc = "rejected" })
        /\ Len(calls.onStop)
               = Cardinality({ j \in StopIds : stops[j].pc = "resolved" })
        /\ \A j \in StopIds :
               stops[j].pc = "resolved" =>
                   \E n \in 1 .. Len(calls.onStop) :
                       /\ calls.onStop[n].data = stops[j].artifact
                       /\ calls.onStop[n].type = stops[j].type

\* Reading a payload back: the signed little-endian sample at a byte offset,
\* and all the samples behind the 44-byte header.
getInt16(bytes, offset) ==
    LET u == getUint16(bytes, offset)
    IN  IF u >= 32768 THEN u - 65536 ELSE u

Payload(bytes) ==
    [ i \in 1 .. (Len(bytes) - 44) \div 2 |-> getInt16(bytes, 44 + 2 * (i - 1)) ]

RECURSIVE Flatten(_)
Flatten(seqs) ==
    IF seqs = << >> THEN << >> ELSE Head(seqs) \o Flatten(Tail(seqs))

\* C24: the samples read back from a lossless artifact are the converted
\* frames f1 .. fk one after the other, in the order the callbacks delivered
\* them: nothing reordered, repeated or left out.
C24_PayloadIsConcatenation ==
    fn.pc = "stopped" =>
        /\ (Len(fn.blob.bytes) - 44) % 2 = 0
        /\ Payload(fn.blob.bytes)
               = Flatten([ f \in 1 .. Len(fn.frames) |->
                             float32ToInt16(fn.frames[f]) ])

\* An artifact was built from the frame << +1.0 >> followed by << -1.0 >>.
C24_Witness ==
    /\ fn.pc = "stopped"
    /\ fn.frames = << << << "num", Unit >> >>, << << "num", 0 - Unit >> >> >>
    /\ SubSeq(fn.blob.bytes, 45, 48) = << 255, 127, 0, 128 >>

\* stop() call j was issued in Recording on a lossless session whose start()
\* had resolved, and no disconnect() raised an exception in it.
LosslessStop(j) ==
    /\ stops[j].pc # "none"
    /\ stops[j].path = "wav"
    /\ stops[j].phaseAtCall = "Recording"
    /\ stops[j].raised = "none"
    /\ starts[stops[j].session].pc = "resolved"
    /\ starts[stops[j].session].pipeline = "wav"

NonZero(e) == e[1] > 0

\* C26: the session's chunk sequence is the emitted chunks of nonzero size,
\* in the order the encoder emitted them - no zero-size chunk in it, no
\* other chunk missing or moved.
C26_NonZeroChunksInOrder ==
    LET kept == SelectSeq(fn.emitted, NonZero)
    IN  fn.mediaRecorderChunks = [ i \in 1 .. Len(kept) |-> kept[i][2] ]

\* The encoder emitted a chunk, an empty one and another chunk.
C26_Witness ==
    /\ Len(fn.emitted) = 3
    /\ fn.emitted[1][1] = 1 /\ fn.emitted[2][1] = 0 /\ fn.emitted[3][1] = 1
    /\ fn.mediaRecorderChunks = << << "chunk", 1, 1 >>, << "chunk", 1, 3 >> >>

\* The chunks of nonzero size that recorder r has emitted, in order.
EmittedBy(r) ==
    LET OfR(c) == c[2] = r
    IN  SelectSeq(calls.chunks, OfR)

\* C27: a lossy stop() issued in Recording asks the encoder to finalize and
\* stays pending, the tracks live, until the encoder's stop event; when it
\* has resolved the event has been delivered, the tracks are stopped, and
\* the artifact is every chunk the encoder emitted, those emitted after the
\* stop request included.
C27_LossyStopOrdering ==
    WellBehavedCaller =>
        \A j \in StopIds :
            (stops[j].path = "lossy" /\ stops[j].phaseAtCall = "Recording") =>
                LET r == stops[j].session
                IN  /\ stops[j].pc = "pending"
                           => (/\ mr[r].state = "inactive"
                               /\ mr[r].stopQueued
                               /\ tracks[stops[j].stream] = "live")
                    /\ stops[j].pc = "resolved"
                           => (/\ ~mr[r].stopQueued
                               /\ tracks[stops[j].stream] = "stopped"
                               /\ stops[j].artifact = EmittedBy(r))

\* A lossy stop() resolved with a chunk emitted before the stop request and
\* one emitted between the request and the stop event.
C27_Witness ==
    /\ WellBehavedCaller
    /\ stops[1].path = "lossy" /\ stops[1].pc = "resolved"
    /\ stops[1].chunks = 1
    /\ Len(stops[1].artifact) = 2

\* C28: whatever subset S of the preference list the platform supports, the
\* recorder is constructed with the earliest element of the list that is in
\* S as its mimeType, and without a mimeType when S is empty.
C28_CodecProbe ==
    fn.pc = "constructed" =>
        LET S == fn.supported
            hinted == "mimeType" \in DOMAIN fn.options
        IN  /\ hinted <=> S # { }
            /\ "audio/webm;codecs=opus" \in S
                   => fn.options.mimeType = "audio/webm;codecs=opus"
            /\ ("audio/webm" \in S /\ "audio/webm;codecs=opus" \notin S)
                   => fn.options.mimeType = "audio/webm"
            /\ (/\ "audio/ogg;codecs=opus" \in S
                /\ "audio/webm" \notin S
                /\ "audio/webm;codecs=opus" \notin S)
                   => fn.options.mimeType = "audio/ogg;codecs=opus"
            /\ S = { "audio/mp4" } => fn.options.mimeType = "audio/mp4"

\* A recorder was constructed on a platform that supports the second and
\* the fourth type of the list only.
C28_Witness ==
    /\ fn.pc = "constructed"
    /\ fn.supported = { "audio/webm", "audio/mp4" }
    /\ fn.options.mimeType = "audio/webm"

\* C29: an artifact's type follows the pipeline of its session - audio/wav
\* when stop() took the lossless path; on the lossy path the type the
\* recorder reports, or audio/webm when it reports none, and audio/wav only
\* if the recorder reported it; and (for a caller that starts from Idle with
\* callbacks that return) the path stop() took is the session's pipeline.
C29_TypeFollowsPipeline ==
    \A j \in StopIds :
        stops[j].pc = "resolved" =>
            /\ stops[j].path = "wav" => stops[j].type = "audio/wav"
            /\ stops[j].path = "lossy" =>
                   /\ stops[j].mimeType # "" => stops[j].type = stops[j].mimeType
                   /\ stops[j].mimeType = "" => stops[j].type = "audio/webm"
                   /\ stops[j].type = "audio/wav"
                          => stops[j].mimeType = "audio/wav"
            /\ (WellBehavedCaller /\ stops[j].phaseAtCall = "Recording")
                   => stops[j].path = starts[stops[j].session].pipeline

\* A lossy session ended with an artifact of the type its recorder reported.
C29_Witness ==
    /\ WellBehavedCaller
    /\ stops[1].pc = "resolved"
    /\ stops[1].path = "lossy"
    /\ starts[1].pipeline = "lossy"
    /\ stops[1].mimeType = "audio/mp4"
    /\ stops[1].type = "audio/mp4"

\* What a stop() call did, by kind, in the order it did it.
Kinds(ops) == [ i \in 1 .. Len(ops) |-> ops[i][1] ]

TeardownOrder ==
    << "processor.disconnect", "source.disconnect", "context.close",
       "stopTracks" >>

\* Every start() so far found createScriptProcessor as the others did: no
\* call found it missing on a platform on which a processor was created.
SameScriptProcessorSupport ==
    ~ /\ \E k \in Ids : starts[k].lossless = "noScriptProcessor"
      /\ \E c \in Ids : ctx[c].processor

\* C30: what a lossless stop() does is, in this order, disconnect the
\* processor, disconnect the source, close the engine and stop the tracks
\* (or a beginning of that, when a step raises); a stop() that resolved did
\* the first three, and all four when it held a stream; no node is
\* disconnected on an engine that is closed (on a platform whose support
\* for createScriptProcessor does not change); and where it has stopped the
\* tracks, the nodes it disconnected are disconnected and the engine it
\* closed is closed.
C30_LosslessTeardownOrder ==
    \A j \in StopIds :
        stops[j].path = "wav" =>
            LET ops == stops[j].ops
            IN  /\ Kinds(ops) = SubSeq(TeardownOrder, 1, Len(ops))
                /\ stops[j].pc = "resolved" =>
                       Len(ops) = IF stops[j].stream # 0 THEN 4 ELSE 3
                /\ SameScriptProcessorSupport =>
                       \A i \in 1 .. Len(ops) :
                           ops[i][1] \in { "processor.disconnect",
                                           "source.disconnect" }
                               => ops[i][3] # "closed"
                /\ Len(ops) = 4
                       => (/\ tracks[ops[4][2]] = "stopped"
                           /\ ctx[ops[3][2]].state = "closed"
                           /\ ~ctx[ops[2][2]].srcConnected
                           /\ ~ctx[ops[1][2]].dstConnected)

\* A lossless stop() went through all four steps of the teardown; another
\* one stopped at a disconnect() that raised.
C30_Witness ==
    \E j, h \in StopIds :
        /\ stops[j].path = "wav"
        /\ stops[j].pc = "resolved"
        /\ Kinds(stops[j].ops) = TeardownOrder
        /\ stops[h].path = "wav"
        /\ stops[h].raised = "source"
        /\ Kinds(stops[h].ops) = << "processor.disconnect" >>

\* C31: a processing graph exists only on an engine that is not suspended;
\* a start() that resolved on the lossless pipeline did so with its engine
\* resumed; and a start() whose resume was rejected, on a platform whose
\* lossy encoder is available, resolved on the lossy pipeline.
C31_ResumeBeforeGraph ==
    WellBehavedCaller =>
        \A k \in Ids :
            /\ ctx[k].processor => ctx[k].state # "suspended"
            /\ (starts[k].pc = "resolved" /\ starts[k].pipeline = "wav")
                   => ctx[k].state \in { "running", "closed" }
            /\ (/\ starts[k].pc \in Settled
                /\ starts[k].lossless = "resumeRejects"
                /\ starts[k].lossy = "ok")
                   => (starts[k].pc = "resolved" /\ starts[k].pipeline = "lossy")

\* C32: a start() that resolved on the lossy pipeline left the controller
\* with no engine, source or processor handle, and the engine its lossless
\* attempt created is neither running nor suspended, its nodes disconnected;
\* this stays so after the session has ended.
C32_FallbackReleasesLossless ==
    WellBehavedCaller =>
        \A k \in Ids :
            (starts[k].pc = "resolved" /\ starts[k].pipeline = "lossy")
                => /\ ~starts[k].engine
                   /\ ctx[k].state \in { "none", "closed" }
                   /\ ~ctx[k].srcConnected
                   /\ ~ctx[k].dstConnected

\* C33: the platform's error name decides the kind whatever the message
\* says - NotAllowedError and PermissionDeniedError give PermissionDenied,
\* NotReadableError gives DeviceBusy - and the message's 'device not found'
\* decides only for an error whose name is none of the classified ones.
C33_CategoryOverMessage ==
    (fn.pc = "thrown" /\ fn.md = "ok") =>
        /\ fn.name \in { "NotAllowedError", "PermissionDeniedError" }
               => fn.error.kind = "PermissionDenied"
        /\ fn.name = "NotReadableError" => fn.error.kind = "DeviceBusy"
        /\ (fn.error.kind = "DeviceNotFound" /\ fn.name # "NotFoundError")
               => (fn.name = "OtherError" /\ fn.msg)

\* C34: on a platform that settles every call and whose encoder, asked to
\* stop, delivers its stop event or an error, every stop() called in
\* Recording settles and the recorder is then Idle with isRecording false,
\* on either pipeline, whether stop() resolved or failed.  The callbacks
\* are ones that do not throw.
C34_StopReturnsToIdle ==
    \A j \in StopIds :
        (cbs = "none" /\ stops[j].pc # "none"
                      /\ stops[j].phaseAtCall = "Recording")
            ~> /\ stops[j].pc \in Settled
               /\ phase = "Idle"
               /\ ~isRecording(World)

\* The exceptions a step of the lossless construction raises.
ConstructionErrors ==
    { "ctorThrows", "resumeRejects", "createSourceThrows",
      "createProcessorThrows", "connectSourceThrows", "connectDestThrows" }

\* C35: when start() rejects, onError was called exactly once by that call,
\* with the error the rejection carries, and that error is the acquisition
\* error or the error of the lossless construction, never one raised by the
\* lossy fallback.
C35_RejectionCarriesFirstFailure ==
    WellBehavedCaller =>
        \A k \in Ids :
            starts[k].pc = "rejected" =>
                /\ starts[k].onError = 1
                /\ starts[k].reported = starts[k].error
                /\ starts[k].error \in AcquisitionErrors \cup ConstructionErrors

\* C35, as the code has it: when start() rejects, onError was called exactly
\* once by that call with the first exception raised in the try block - the
\* acquisition error, the error of the lossless construction, an exception
\* of onStart, or the fallback's own error when the fallback was taken in
\* the try block after a capability check - and never with the error of the
\* fallback tried in the catch block; the rejection carries that error
\* unless onError itself throws.
C35_RejectionReportsFirstException ==
    \A k \in Ids :
        starts[k].pc = "rejected" =>
            /\ starts[k].onError = 1
            /\ starts[k].error = IF cbs = "onError" THEN "onErrorThrew"
                                 ELSE starts[k].reported
            /\ starts[k].reported \in
                   AcquisitionErrors \cup ConstructionErrors
                       \cup { "TypeError", "onStartThrew", "MediaRecorderError" }
            /\ starts[k].acquired # "ok"
                   => starts[k].reported = starts[k].acquired
            /\ starts[k].reported \in ConstructionErrors
                   => starts[k].reported = starts[k].lossless
            /\ starts[k].reported = "MediaRecorderError"
                   => starts[k].lossless \in
                          { "noAudioContextClass", "noScriptProcessor" }
            /\ starts[k].reported = "onStartThrew" => cbs = "onStart"

\* A start() rejected with the error of the fallback taken in the try block.
C35_Witness ==
    \E k \in Ids :
        /\ starts[k].pc = "rejected"
        /\ cbs = "none"
        /\ starts[k].lossless = "noAudioContextClass"
        /\ starts[k].reported = "MediaRecorderError"
        /\ starts[k].error = "MediaRecorderError"

\* Session k began on an instance whose earlier session, if any, was
\* started and then stopped with an artifact.
AfterCompletedSessions(k) ==
    /\ starts[k].phaseAtCall = "Idle"
    /\ \A h \in 1 .. k - 1 :
           /\ starts[h].pc = "resolved"
           /\ \E j \in StopIds : stops[j].session = h /\ stops[j].pc = "resolved"

\* C36: a start() on an instance whose earlier sessions completed behaves as
\* on a new instance: when a step of its lossless construction throws, the
\* lossy fallback is attempted, also when the earlier session was a lossy one.
C36_FallbackInEverySession ==
    WellBehavedCaller =>
        \A k \in Ids :
            (/\ AfterCompletedSessions(k)
             /\ starts[k].pc \in Settled
             /\ starts[k].acquired = "ok"
             /\ starts[k].lossless \in ConstructionErrors)
                => starts[k].lossyTried >= 1

\* The sessions whose frame callback or encoder delivered an element of
\* the artifact.
SessionsIn(artifact) == { artifact[i][2] : i \in 1 .. Len(artifact) }

\* C37: the artifact a stop() called in Recording resolves with holds only
\* frames and chunks
\* delivered by the graph or the encoder of its own session; what a callback
\* of another session delivered, before or after that session's teardown,
\* is in no later artifact.
C37_ArtifactOwnSessionOnly ==
    WellBehavedCaller =>
        \A j \in StopIds :
            (stops[j].pc = "resolved" /\ stops[j].phaseAtCall = "Recording")
                => SessionsIn(stops[j].artifact) \subseteq { stops[j].session }

\* The stop() calls made on recorder i, and the first of them.
StopsOf(i) == { j \in StopIds : stops[j].pc # "none" /\ stops[j].session = i }

FirstStopOf(i) == CHOOSE j \in StopsOf(i) : \A h \in StopsOf(i) : j <= h

\* The uploads of an artifact of recorder i.
UploadsOf(i) == { n \in 1 .. Len(ui.sent) : stops[ui.sent[n]].session = i }

\* C38: in the component, a recording whose first stop() was made by
\* cancelVoiceNote has no artifact uploaded, and one whose first stop() was
\* made by stopVoiceRecording has at most one uploaded, whatever is clicked
\* while that stop() is pending.
C38_CancelNeverUploads ==
    \A i \in Ids :
        StopsOf(i) # {} =>
            /\ stops[FirstStopOf(i)].by = "cancelVoiceNote" => UploadsOf(i) = {}
            /\ stops[FirstStopOf(i)].by = "stop" => Cardinality(UploadsOf(i)) <= 1

\* No handler of the component is about to continue: every await it is
\* suspended at is still unsettled.
NoContinuationDue ==
    /\ \A i \in Ids : ui.startPc[i] = "awaiting"
                          => starts[i].pc \in { "acquiring", "resuming" }
    /\ \A j \in StopIds : ui.stopPc[j] = "awaiting" => stops[j].pc = "pending"

\* C39: between the component's handlers, while its isRecording flag is true
\* the recorder it references holds a stream and exactly one duration timer
\* runs; while the flag is false and no start() is pending, no duration timer
\* runs and no recorder the component created holds a stream.
C39_CallerControllerConsistent ==
    NoContinuationDue =>
        /\ ui.isRecording
               => (/\ ui.voiceRecorderRef # 0
                   /\ RefIsRecording
                   /\ Cardinality(ui.timers) = 1)
        /\ (~ui.isRecording /\ \A i \in Ids : ui.startPc[i] # "awaiting")
               => (/\ ui.timers = {}
                   /\ \A i \in Ids : ui.recorders[i].stream = 0)

====
